---- MODULE Spec2Model ----
(***************************************************************************)
(* Dial value time-series engine of the wtf dial service (sqlite/dial.go). *)
(*                                                                         *)
(* The three tables the engine works on are modelled as sets of rows, so   *)
(* that key uniqueness is something the operations have to establish and   *)
(* not something the representation gives for free:                        *)
(*   dials            rows [id, user_id, value]                            *)
(*   dial_memberships rows [dial_id, user_id, value]                       *)
(*   dial_values      rows [dial_id, timestamp, value]                     *)
(* Time is counted in seconds.  Timestamps are compared chronologically,   *)
(* as the TIMESTAMP columns of the schema do.                              *)
(*                                                                         *)
(* Every service method runs in one transaction (BeginTx ... Commit, with  *)
(* a deferred Rollback), so in the sequential specifications one action is *)
(* one committed or rolled back transaction.                               *)
(*                                                                         *)
(* Spec is the write path (creations, memberships, recomputations),        *)
(* SpecSlots the reconstruction of one dial's slots from a stored history, *)
(* SpecReport the report over the dials a caller can see, SpecTx the       *)
(* statements of concurrent SetDialMembershipValue calls interleaved under *)
(* the locking of the storage engine, SpecAuth the CreateAuth calls on the *)
(* users and auths tables.                                                 *)
(***************************************************************************)
EXTENDS Integers, Sequences, FiniteSets, TLC

VARIABLES
    dials,             \* table dials
    dial_memberships,  \* table dial_memberships
    dial_values,       \* table dial_values
    nextDialID,        \* next value of the SERIAL column dials.id
    clock,             \* what db.Now() returns, in seconds
    events,            \* events[u]: value-changed events published to user u
                       \* by the most recent operation, in publication order
    lastOp,            \* the most recent operation and what it returned
    lastUpsert,        \* the last insertDialValue call of the most recent
                       \* operation, None when it made none
    opCount,           \* service calls made so far
    slots,             \* the most recent findDialValueSlotsBetween call
    report,            \* the most recent AverageDialValueReport call
    users,             \* table users
    auths,             \* table auths
    lastAuth,          \* the most recent CreateAuth call and what it returned
    DBType,            \* DB.DBType: the storage engine behind the connection
    txs                \* the transactions of the concurrent service calls

authVars == <<users, auths, lastAuth>>
txVars == <<DBType, txs>>

vars == <<dials, dial_memberships, dial_values, nextDialID, clock, events,
          lastOp, lastUpsert, opCount, slots, report, authVars, txVars>>

----------------------------------------------------------------------------
(* Bounds *)

MaxDials == 2          \* dials ever created
MaxUsers == 2          \* users (ids 1..MaxUsers, 0 is "not logged in")
MaxMinutes == 1        \* the clock runs from 0 to MaxMinutes minutes
MaxValue == 1          \* highest membership value
MaxOps == 4            \* service calls in one run

(* Program constants *)

Second == 1
Minute == 60 * Second
Unset == -1            \* marker of an empty slot

Users == 1..MaxUsers
DialIDs == 1..MaxDials
(* membership values are any integers: the levels 0..MaxValue and a *)
(* negative one                                                     *)
Values == {-1} \cup 0..MaxValue
ClockSteps == {30 * Second, Minute}

None == [op |-> "none"]

----------------------------------------------------------------------------
(* time.Time.Truncate(d) for times at or after the zero time *)
Truncate(t, d) == IF d <= 0 THEN t ELSE t - (t % d)

(* Go's integer division truncates toward zero *)
GoDiv(a, b) ==
    IF (a >= 0) = (b > 0) \/ a = 0
    THEN (IF a >= 0 THEN a ELSE -a) \div (IF b > 0 THEN b ELSE -b)
    ELSE -((IF a >= 0 THEN a ELSE -a) \div (IF b > 0 THEN b ELSE -b))

(* the time fixed at the start of the transaction *)
TxNow == Truncate(clock, Second)

RECURSIVE SumValues(_)
SumValues(rows) ==
    IF rows = {} THEN 0
    ELSE LET r == CHOOSE x \in rows : TRUE
         IN r.value + SumValues(rows \ {r})

(* ROUND(x) of the storage engine for x = sum / n: nearest integer, halves *)
(* away from zero                                                          *)
Round(sum, n) ==
    IF sum >= 0 THEN (2 * sum + n) \div (2 * n)
    ELSE -((2 * (-sum) + n) \div (2 * n))

(* SELECT CAST(ROUND(IFNULL(AVG(value), 0)) AS INTEGER) FROM dial_memberships *)
(* The statement has no WHERE clause; the id argument passed to it has no    *)
(* placeholder to bind to.                                                   *)
AvgMembershipValue(memberships, id) ==
    IF memberships = {} THEN 0
    ELSE Round(SumValues(memberships), Cardinality(memberships))

DialExists(ds, id) == \E d \in ds : d.id = id

DialValue(ds, id) == (CHOOSE d \in ds : d.id = id).value

(* gorm's Scan of a single column into an int: the destination keeps its  *)
(* zero value when the query returns no row, and no error is reported.    *)
ScanOldValue(ds, id) ==
    [Error |-> "nil",
     value |-> IF DialExists(ds, id) THEN DialValue(ds, id) ELSE 0]

(* UPDATE dials SET value = ? WHERE id = ? *)
UpdateDialValue(ds, id, value) ==
    {IF d.id = id THEN [d EXCEPT !.value = value] ELSE d : d \in ds}

(* INSERT ... ON CONFLICT (dial_id, timestamp) DO UPDATE SET value = ?      *)
(* dial_values.dial_id REFERENCES dials (id): the insert fails for a dial   *)
(* that does not exist.                                                     *)
insertDialValue_append(dv, ds, id, value, timestamp) ==
    LET ts == Truncate(timestamp, Minute)
    IN IF ~DialExists(ds, id)
       THEN [err |-> "EFOREIGNKEY", dial_values |-> dv]
       ELSE [err |-> "nil",
             dial_values |-> dv \cup {[dial_id |-> id, timestamp |-> ts, value |-> value]}]

insertDialValue_everyDial(dv, ds, id, value, timestamp) ==
    LET ts == Truncate(timestamp, Minute)
    IN IF ~DialExists(ds, id)
       THEN [err |-> "EFOREIGNKEY", dial_values |-> dv]
       ELSE [err |-> "nil",
             dial_values |->
                {r \in dv : r.timestamp # ts}
                \cup {[dial_id |-> d.id, timestamp |-> ts, value |-> value] :
                         d \in ds}]

insertDialValue_keepExisting(dv, ds, id, value, timestamp) ==
    LET ts == Truncate(timestamp, Minute)
    IN IF ~DialExists(ds, id)
       THEN [err |-> "EFOREIGNKEY", dial_values |-> dv]
       ELSE [err |-> "nil",
             dial_values |->
                IF \E r \in dv : r.dial_id = id /\ r.timestamp = ts
                THEN dv
                ELSE dv \cup {[dial_id |-> id, timestamp |-> ts, value |-> value]}]

insertDialValue_noTruncate(dv, ds, id, value, timestamp) ==
    LET ts == timestamp
    IN IF ~DialExists(ds, id)
       THEN [err |-> "EFOREIGNKEY", dial_values |-> dv]
       ELSE [err |-> "nil",
             dial_values |->
                {r \in dv : ~(r.dial_id = id /\ r.timestamp = ts)}
                \cup {[dial_id |-> id, timestamp |-> ts, value |-> value]}]

insertDialValue(dv, ds, id, value, timestamp) ==
    LET ts == Truncate(timestamp, Minute)
    IN IF ~DialExists(ds, id)
       THEN [err |-> "EFOREIGNKEY", dial_values |-> dv]
       ELSE [err |-> "nil",
             dial_values |->
                {r \in dv : ~(r.dial_id = id /\ r.timestamp = ts)}
                \cup {[dial_id |-> id, timestamp |-> ts, value |-> value]}]

NoEvents == [u \in Users |-> <<>>]

(* publishDialEvent: one PublishEvent call per row of the member query *)
publishDialEvent_everyone(memberships, id, event) ==
    [u \in Users |-> <<event>>]

publishDialEvent(memberships, id, event) ==
    [u \in Users |->
        IF \E m \in memberships : m.dial_id = id /\ m.user_id = u
        THEN <<event>> ELSE <<>>]

(* refreshDialValue, as a function of the tables it reads.  The result     *)
(* carries the tables as the statements executed so far left them; the     *)
(* caller rolls them back when err is not nil.                             *)
RefreshResult(err, ds, dv, ev, found, old, new, ups) ==
    [err |-> err, dials |-> ds, dial_values |-> dv, events |-> ev,
     found |-> found, oldValue |-> old, newValue |-> new, upsert |-> ups]

UpsertCall(dv, id, value, timestamp) ==
    [op |-> "upsert", dial_id |-> id, timestamp |-> timestamp, value |-> value,
     existed |-> \E r \in dv : r.dial_id = id
                               /\ r.timestamp = Truncate(timestamp, Minute)]

refreshDialValue_noShortCircuit(ds, memberships, dv, id, now) ==
    LET scan == ScanOldValue(ds, id)
        oldValue == scan.value
        newValue == AvgMembershipValue(memberships, id)
        found == DialExists(ds, id)
        ds2 == UpdateDialValue(ds, id, newValue)
        ins == insertDialValue(dv, ds2, id, newValue, now)
        ups == UpsertCall(dv, id, newValue, now)
        event == [id |-> id, value |-> newValue]
    IN IF scan.Error = "ErrNoRows"
       THEN RefreshResult("nil", ds, dv, NoEvents, found, oldValue, oldValue, None)
       ELSE IF ins.err # "nil"
       THEN RefreshResult(ins.err, ds2, ins.dial_values, NoEvents, found,
                          oldValue, newValue, ups)
       ELSE RefreshResult("nil", ds2, ins.dial_values,
                          publishDialEvent(memberships, id, event), found,
                          oldValue, newValue, ups)

refreshDialValue(ds, memberships, dv, id, now) ==
    LET scan == ScanOldValue(ds, id)
        oldValue == scan.value
        newValue == AvgMembershipValue(memberships, id)
        found == DialExists(ds, id)
        ds2 == UpdateDialValue(ds, id, newValue)
        ins == insertDialValue(dv, ds2, id, newValue, now)
        ups == UpsertCall(dv, id, newValue, now)
        event == [id |-> id, value |-> newValue]
    IN IF scan.Error = "ErrNoRows"
       THEN RefreshResult("nil", ds, dv, NoEvents, found, oldValue, oldValue, None)
       ELSE IF oldValue = newValue
       THEN RefreshResult("nil", ds, dv, NoEvents, found, oldValue, newValue, None)
       ELSE IF ins.err # "nil"
       THEN RefreshResult(ins.err, ds2, ins.dial_values, NoEvents, found,
                          oldValue, newValue, ups)
       ELSE RefreshResult("nil", ds2, ins.dial_values,
                          publishDialEvent(memberships, id, event), found,
                          oldValue, newValue, ups)

(* what an operation leaves in lastOp *)
Op(name, user, id, err, r) ==
    [op |-> name, user |-> user, id |-> id, err |-> err,
     found |-> r.found, oldValue |-> r.oldValue, newValue |-> r.newValue]

NoRefresh == [found |-> FALSE, oldValue |-> 0, newValue |-> 0]

----------------------------------------------------------------------------
Init ==
    /\ dials = {}
    /\ dial_memberships = {}
    /\ dial_values = {}
    /\ nextDialID = 1
    /\ clock = 0
    /\ events = NoEvents
    /\ lastOp = Op("init", 0, 0, "nil", NoRefresh)
    /\ lastUpsert = None
    /\ opCount = 0
    /\ slots = None
    /\ report = None
    /\ users = {}
    /\ auths = {}
    /\ lastAuth = None
    /\ DBType = "sqlite"
    /\ txs = <<>>

(* db.Now() moves on between transactions *)
Tick ==
    \E d \in ClockSteps :
        /\ clock + d <= MaxMinutes * Minute
        /\ clock' = clock + d
        /\ lastOp' = Op("tick", 0, 0, "nil", NoRefresh)
        /\ events' = NoEvents
        /\ lastUpsert' = None
        /\ UNCHANGED <<dials, dial_memberships, dial_values, nextDialID,
                       opCount, slots, report, authVars, txVars>>

(* a transaction that returned an error: the deferred Rollback undoes its *)
(* writes; events already published stay published                        *)
Rollback(op, ev) ==
    /\ lastOp' = op
    /\ events' = ev
    /\ opCount' = opCount + 1
    /\ lastUpsert' = None
    /\ UNCHANGED <<dials, dial_memberships, dial_values, nextDialID, clock,
                   slots, report, authVars, txVars>>

(* createDial without the insertDialValue call for the initial value *)
CreateDial_noInitialSnapshot(user, value) ==
    /\ nextDialID <= MaxDials
    /\ LET id == nextDialID
           ds1 == dials \cup {[id |-> id, user_id |-> user, value |-> value]}
           ins == [err |-> "nil", dial_values |-> dial_values]
           ms1 == dial_memberships
                    \cup {[dial_id |-> id, user_id |-> user, value |-> 0]}
           r == refreshDialValue(ds1, ms1, ins.dial_values, id, TxNow)
       IN IF ins.err # "nil" \/ r.err # "nil"
          THEN Rollback(Op("CreateDial", user, id,
                           IF ins.err # "nil" THEN ins.err ELSE r.err, r),
                        r.events)
          ELSE /\ dials' = r.dials
               /\ dial_memberships' = ms1
               /\ dial_values' = r.dial_values
               /\ nextDialID' = nextDialID + 1
               /\ events' = r.events
               /\ lastOp' = Op("CreateDial", user, id, "nil", r)
               /\ lastUpsert' = IF r.upsert # None THEN r.upsert
                                ELSE UpsertCall(dial_values, id, value, TxNow)
               /\ opCount' = opCount + 1
               /\ UNCHANGED <<clock, slots, report, authVars, txVars>>

(* DialService.CreateDial -> createDial: insert the dial, record its      *)
(* initial value, create the owner's membership (value 0), which          *)
(* recomputes the dial value.                                             *)
CreateDial(user, value) ==
    /\ nextDialID <= MaxDials
    /\ LET id == nextDialID
           ds1 == dials \cup {[id |-> id, user_id |-> user, value |-> value]}
           ins == insertDialValue(dial_values, ds1, id, value, TxNow)
           ms1 == dial_memberships
                    \cup {[dial_id |-> id, user_id |-> user, value |-> 0]}
           r == refreshDialValue(ds1, ms1, ins.dial_values, id, TxNow)
       IN IF ins.err # "nil" \/ r.err # "nil"
          THEN Rollback(Op("CreateDial", user, id,
                           IF ins.err # "nil" THEN ins.err ELSE r.err, r),
                        r.events)
          ELSE /\ dials' = r.dials
               /\ dial_memberships' = ms1
               /\ dial_values' = r.dial_values
               /\ nextDialID' = nextDialID + 1
               /\ events' = r.events
               /\ lastOp' = Op("CreateDial", user, id, "nil", r)
               /\ lastUpsert' = IF r.upsert # None THEN r.upsert
                                ELSE UpsertCall(dial_values, id, value, TxNow)
               /\ opCount' = opCount + 1
               /\ UNCHANGED <<clock, slots, report, authVars, txVars>>

(* createDialMembership: a user joins a dial with a value of their own *)
CreateDialMembership(user, dialID, value) ==
    IF ~DialExists(dials, dialID)
    THEN Rollback(Op("CreateDialMembership", user, dialID, "ENOTFOUND", NoRefresh),
                  NoEvents)
    ELSE IF \E m \in dial_memberships : m.dial_id = dialID /\ m.user_id = user
    THEN Rollback(Op("CreateDialMembership", user, dialID, "ECONFLICT", NoRefresh),
                  NoEvents)
    ELSE LET ms1 == dial_memberships
                      \cup {[dial_id |-> dialID, user_id |-> user, value |-> value]}
             r == refreshDialValue(dials, ms1, dial_values, dialID, TxNow)
         IN IF r.err # "nil"
            THEN Rollback(Op("CreateDialMembership", user, dialID, r.err, r),
                          r.events)
            ELSE /\ dials' = r.dials
                 /\ dial_memberships' = ms1
                 /\ dial_values' = r.dial_values
                 /\ events' = r.events
                 /\ lastOp' = Op("CreateDialMembership", user, dialID, "nil", r)
                 /\ lastUpsert' = r.upsert
                 /\ opCount' = opCount + 1
                 /\ UNCHANGED <<nextDialID, clock, slots, report, authVars, txVars>>

(* updateDialMembership with only Value set: store the value, recompute *)
updateDialMembership(ms, user, dialID, value) ==
    {IF m.dial_id = dialID /\ m.user_id = user
     THEN [m EXCEPT !.value = value] ELSE m : m \in ms}

(* DialService.SetDialMembershipValue *)
SetDialMembershipValue(user, dialID, value) ==
    IF ~\E m \in dial_memberships : m.dial_id = dialID /\ m.user_id = user
    THEN Rollback(Op("SetDialMembershipValue", user, dialID, "ENOTFOUND", NoRefresh),
                  NoEvents)
    ELSE LET ms1 == updateDialMembership(dial_memberships, user, dialID, value)
             r == refreshDialValue(dials, ms1, dial_values, dialID, TxNow)
         IN IF r.err # "nil"
            THEN Rollback(Op("SetDialMembershipValue", user, dialID, r.err, r),
                          r.events)
            ELSE /\ dials' = r.dials
                 /\ dial_memberships' = ms1
                 /\ dial_values' = r.dial_values
                 /\ events' = r.events
                 /\ lastOp' = Op("SetDialMembershipValue", user, dialID, "nil", r)
                 /\ lastUpsert' = r.upsert
                 /\ opCount' = opCount + 1
                 /\ UNCHANGED <<nextDialID, clock, slots, report, authVars, txVars>>

(* findDials with filter.ID set and no invite code: the dial, if the *)
(* current user is a member of it                                    *)
findDialByID(ds, ms, user, id) ==
    {d \in ds : d.id = id
                /\ \E m \in ms : m.dial_id = d.id /\ m.user_id = user}

(* deleteDial without the wtf.CanEditDial check *)
DeleteDial_noOwnerCheck(user, id) ==
    LET found == findDialByID(dials, dial_memberships, user, id)
    IN IF found = {}
       THEN Rollback(Op("DeleteDial", user, id, "ENOTFOUND", NoRefresh), NoEvents)
       ELSE /\ dials' = {d \in dials : d.id # id}
            /\ dial_memberships' = {m \in dial_memberships : m.dial_id # id}
            /\ dial_values' = {r \in dial_values : r.dial_id # id}
            /\ events' = NoEvents
            /\ lastOp' = Op("DeleteDial", user, id, "nil", NoRefresh)
            /\ lastUpsert' = None
            /\ opCount' = opCount + 1
            /\ UNCHANGED <<nextDialID, clock, slots, report, authVars, txVars>>

(* DialService.DeleteDial -> deleteDial; the memberships and the history *)
(* of the dial go with it (ON DELETE CASCADE)                            *)
DeleteDial(user, id) ==
    LET found == findDialByID(dials, dial_memberships, user, id)
    IN IF found = {}
       THEN Rollback(Op("DeleteDial", user, id, "ENOTFOUND", NoRefresh), NoEvents)
       ELSE IF (CHOOSE d \in found : TRUE).user_id # user
       THEN Rollback(Op("DeleteDial", user, id, "EUNAUTHORIZED", NoRefresh), NoEvents)
       ELSE /\ dials' = {d \in dials : d.id # id}
            /\ dial_memberships' = {m \in dial_memberships : m.dial_id # id}
            /\ dial_values' = {r \in dial_values : r.dial_id # id}
            /\ events' = NoEvents
            /\ lastOp' = Op("DeleteDial", user, id, "nil", NoRefresh)
            /\ lastUpsert' = None
            /\ opCount' = opCount + 1
            /\ UNCHANGED <<nextDialID, clock, slots, report, authVars, txVars>>

(* refreshDialValue(id) in a transaction of its own, for any id *)
RefreshDialValue(id) ==
    LET r == refreshDialValue(dials, dial_memberships, dial_values, id, TxNow)
    IN IF r.err # "nil"
       THEN Rollback(Op("refreshDialValue", 0, id, r.err, r), r.events)
       ELSE /\ dials' = r.dials
            /\ dial_values' = r.dial_values
            /\ events' = r.events
            /\ lastOp' = Op("refreshDialValue", 0, id, "nil", r)
            /\ lastUpsert' = r.upsert
            /\ opCount' = opCount + 1
            /\ UNCHANGED <<dial_memberships, nextDialID, clock, slots, report, authVars, txVars>>

Next ==
    \/ Tick
    \/ opCount < MaxOps /\ \E u \in Users, v \in Values : CreateDial(u, v)
    \/ opCount < MaxOps /\ \E u \in Users, d \in DialIDs, v \in Values :
                              CreateDialMembership(u, d, v)
    \/ opCount < MaxOps /\ \E u \in Users, d \in DialIDs, v \in Values :
                              SetDialMembershipValue(u, d, v)
    \/ opCount < MaxOps /\ \E u \in Users, d \in DialIDs : DeleteDial(u, d)
    \/ opCount < MaxOps /\ \E d \in DialIDs : RefreshDialValue(d)

Spec == Init /\ [][Next]_vars

----------------------------------------------------------------------------
(* Settling the claims about the write path *)

RowsAt(dv, id, ts) == {r \in dv : r.dial_id = id /\ r.timestamp = ts}

Members(ms, id) == {m \in ms : m.dial_id = id}

(* timestamps a transaction of the current minute hands to            *)
(* insertDialValue: the first, the middle and the last second of it   *)
UpsertTimes ==
    {Truncate(clock, Minute) + k : k \in {0, 30 * Second, Minute - 1}}

(* operations that end in a recomputation of the dial value *)
RecomputeOps ==
    {"CreateDial", "CreateDialMembership", "SetDialMembershipValue",
     "refreshDialValue"}

(* C1: Upsert is idempotent.  In every reachable store and for every dial, *)
(* timestamp and value, upserting twice gives the store that upserting     *)
(* once gives, with exactly one snapshot at (dial, timestamp truncated to  *)
(* the minute) holding the value; upserting another value at a timestamp   *)
(* of the same minute replaces the value and keeps the number of           *)
(* snapshots.  The snapshot key of the most recent upsert the program made *)
(* holds exactly one row.                                                  *)
C1_IdempotentUpsert ==
    /\ \A d \in dials, t \in UpsertTimes, v \in Values, w \in Values :
         LET once == insertDialValue(dial_values, dials, d.id, v, t)
             twice == insertDialValue(once.dial_values, dials, d.id, v, t)
             key == Truncate(t, Minute)
         IN /\ once.err = "nil" /\ twice.err = "nil"
            /\ twice.dial_values = once.dial_values
            /\ RowsAt(once.dial_values, d.id, key)
                 = {[dial_id |-> d.id, timestamp |-> key, value |-> v]}
            /\ \A t2 \in UpsertTimes :
                 Truncate(t2, Minute) = key =>
                   LET other == insertDialValue(once.dial_values, dials, d.id, w, t2)
                   IN /\ Cardinality(other.dial_values)
                           = Cardinality(once.dial_values)
                      /\ RowsAt(other.dial_values, d.id, key)
                           = {[dial_id |-> d.id, timestamp |-> key, value |-> w]}
    /\ lastUpsert # None =>
         Cardinality(RowsAt(dial_values, lastUpsert.dial_id,
                            Truncate(lastUpsert.timestamp, Minute))) = 1

(* an upsert has hit a key that already held a snapshot *)
C1_Witness ==
    /\ lastUpsert # None
    /\ lastUpsert.existed
    /\ Cardinality(dial_values) >= 2

(* C2: every stored timestamp is a whole minute, no dial has two snapshots *)
(* in one minute, and the snapshot of the minute of the most recent write  *)
(* holds the value of that write (the later write wins).                   *)
C2_MinuteTruncation ==
    /\ \A r \in dial_values : r.timestamp % Minute = 0
    /\ \A r1 \in dial_values, r2 \in dial_values :
         (r1.dial_id = r2.dial_id /\ r1.timestamp = r2.timestamp) => r1 = r2
    /\ lastUpsert # None =>
         RowsAt(dial_values, lastUpsert.dial_id,
                Truncate(lastUpsert.timestamp, Minute))
           = {[dial_id |-> lastUpsert.dial_id,
               timestamp |-> Truncate(lastUpsert.timestamp, Minute),
               value |-> lastUpsert.value]}

(* a write in the middle of a minute has landed on the snapshot that an *)
(* earlier write of the same minute left                                *)
C2_Witness ==
    /\ lastUpsert # None
    /\ lastUpsert.existed
    /\ lastUpsert.timestamp % Minute # 0
    /\ lastOp.op = "SetDialMembershipValue"

(* the mean of a set of rows rounded to the nearest integer, halves up *)
RoundHalfUp(sum, n) == (2 * sum + n) \div (2 * n)

MeanOf(rows) ==
    IF rows = {} THEN 0 ELSE RoundHalfUp(SumValues(rows), Cardinality(rows))

(* C3: a recomputation leaves the dial with the rounded mean (halves up) *)
(* of the contributions of that dial only, 0 when it has none.           *)
C3_MeanOfOwnContributions ==
    (lastOp.op \in RecomputeOps /\ lastOp.found /\ lastOp.err = "nil") =>
        DialValue(dials, lastOp.id) = MeanOf(Members(dial_memberships, lastOp.id))

(* C4: a recomputation whose new value equals the stored value writes  *)
(* nothing: dial values and snapshots stay as they were and no event   *)
(* is published.                                                       *)
C4_NoOpShortCircuit ==
    [][(/\ lastOp'.op \in {"refreshDialValue", "SetDialMembershipValue",
                           "CreateDialMembership"}
        /\ lastOp'.err = "nil"
        /\ lastOp'.newValue = lastOp'.oldValue)
       => (/\ dials' = dials
           /\ dial_values' = dial_values
           /\ events' = NoEvents)]_vars

(* a recomputation of an existing dial has found its value unchanged at *)
(* a minute for which the dial has no snapshot                          *)
C4_Witness ==
    /\ lastOp.op \in {"refreshDialValue", "SetDialMembershipValue"}
    /\ lastOp.found
    /\ lastOp.newValue = lastOp.oldValue
    /\ RowsAt(dial_values, lastOp.id, Truncate(clock, Minute)) = {}
    /\ dial_memberships # {}

(* C5: a recomputation of an existing dial whose new value differs from   *)
(* the stored one succeeds, stores the new value on the dial, leaves the  *)
(* snapshot (dial, now truncated to the minute, new value), and publishes *)
(* exactly one event (dial id, new value) to each member of the dial and  *)
(* none to anybody else.                                                  *)
C5_ChangeIsStoredRecordedPublished ==
    (lastOp.op \in RecomputeOps /\ lastOp.found
        /\ lastOp.newValue # lastOp.oldValue) =>
        /\ lastOp.err = "nil"
        /\ DialValue(dials, lastOp.id) = lastOp.newValue
        /\ RowsAt(dial_values, lastOp.id, Truncate(clock, Minute))
             = {[dial_id |-> lastOp.id, timestamp |-> Truncate(clock, Minute),
                 value |-> lastOp.newValue]}
        /\ \A u \in Users :
             events[u] =
               IF \E m \in dial_memberships :
                     m.dial_id = lastOp.id /\ m.user_id = u
               THEN <<[id |-> lastOp.id, value |-> lastOp.newValue]>>
               ELSE <<>>

(* a changed value has been published to a member while another user, *)
(* not a member of the dial, got nothing                              *)
C5_Witness ==
    /\ lastOp.op \in RecomputeOps
    /\ lastOp.found
    /\ lastOp.newValue # lastOp.oldValue
    /\ \E u \in Users : events[u] # <<>>
    /\ \E u \in Users :
         /\ events[u] = <<>>
         /\ ~\E m \in dial_memberships : m.dial_id = lastOp.id /\ m.user_id = u

(* C6: recomputing a dial that does not exist returns no error, writes no *)
(* dial value and no snapshot and publishes no event, whatever            *)
(* contributions are stored.                                              *)
C6_MissingDialIsNoOp ==
    [][(lastOp'.op = "refreshDialValue" /\ ~lastOp'.found)
       => (/\ lastOp'.err = "nil"
           /\ dials' = dials
           /\ dial_values' = dial_values
           /\ events' = NoEvents)]_vars

----------------------------------------------------------------------------
(* Reading the history: findDialValueSlotsBetween *)

(* SELECT value FROM dial_values WHERE dial_id = ? AND timestamp <= ?    *)
(* LIMIT 1, scanned into an int.  The statement has no ORDER BY, so the  *)
(* row it yields is any of the matching rows; with no matching row the   *)
(* destination keeps its zero value.                                     *)
InitialValues(dv, id, start) ==
    LET rows == {r \in dv : r.dial_id = id /\ r.timestamp <= start}
    IN IF rows = {} THEN {0} ELSE {r.value : r \in rows}

(* SELECT * FROM dial_values WHERE dial_id = ? AND timestamp >= ? AND *)
(* timestamp < ?                                                      *)
RangeRows_noLowerBound(dv, id, start, end) ==
    {r \in dv : r.dial_id = id /\ r.timestamp < end}

RangeRows_endInclusive(dv, id, start, end) ==
    {r \in dv : r.dial_id = id /\ r.timestamp >= start /\ r.timestamp <= end}

RangeRows(dv, id, start, end) ==
    {r \in dv : r.dial_id = id /\ r.timestamp >= start /\ r.timestamp < end}

(* the orders in which a query without ORDER BY can return a set of rows *)
RowOrders(rows) ==
    {f \in [1..Cardinality(rows) -> rows] :
        \A i \in DOMAIN f, j \in DOMAIN f : f[i] = f[j] => i = j}

(* what a query can report: success, or a failure of the database *)
DBErrors == {"nil", "disk I/O error"}

(* what a call ends with: a run-time panic, the error of a failed query, *)
(* or the slots it returns; assigned is the slots as the assignment loop *)
(* left them, before the empty ones are filled                           *)
Panic(msg) ==
    [panic |-> msg, err |-> "nil", assigned |-> <<>>, values |-> <<>>]
Failed(err) ==
    [panic |-> "none", err |-> err, assigned |-> <<>>, values |-> <<>>]
Returned(assigned, values) ==
    [panic |-> "none", err |-> "nil", assigned |-> assigned, values |-> values]

(* for _, value := range rangeValues { values[i] = value.Value } *)
RECURSIVE AssignSlots(_, _, _, _)
AssignSlots(values, rows, start, interval) ==
    IF rows = <<>> THEN values
    ELSE LET i == GoDiv(Head(rows).timestamp - start, interval)
         IN AssignSlots([values EXCEPT ![i + 1] = Head(rows).value],
                        Tail(rows), start, interval)

(* the loop that fills the empty slots with the value before them *)
RECURSIVE FillSlots(_, _, _)
FillSlots(values, i, lastValue) ==
    IF i > Len(values) THEN values
    ELSE IF values[i] # Unset
    THEN FillSlots(values, i + 1, values[i])
    ELSE FillSlots([values EXCEPT ![i] = lastValue], i + 1, lastValue)

(* findDialValueSlotsBetween; first is what the first query scanned, rows *)
(* is what the second query returned, in the order it returned it, dbErr  *)
(* is the error of the query that failed, "nil" when both succeeded       *)
findDialValueSlotsBetween(id, start, end, interval, first, rows, dbErr) ==
    IF interval = 0 THEN Panic("integer divide by zero")
    ELSE LET n == GoDiv(end - start, interval)
         IN IF n < 0 THEN Panic("makeslice: len out of range")
            ELSE IF n = 0 THEN Returned(<<>>, <<>>)
            ELSE IF dbErr # "nil" THEN Failed(dbErr)
            ELSE IF \E k \in DOMAIN rows :
                      LET i == GoDiv(rows[k].timestamp - start, interval)
                      IN i < 0 \/ i >= n
            THEN Panic("index out of range")
            ELSE LET empty == [i \in 1..n |-> Unset]
                     seeded == [empty EXCEPT ![1] = first]
                     assigned == AssignSlots(seeded, rows, start, interval)
                 IN Returned(assigned, FillSlots(assigned, 1, 0))

(* every result the call can return for a given store *)
SlotsOutcomes(dv, id, start, end, interval) ==
    {findDialValueSlotsBetween(id, start, end, interval, first, rows, dbErr) :
        first \in InitialValues(dv, id, start),
        rows \in RowOrders(RangeRows(dv, id, start, end)),
        dbErr \in DBErrors}

MaxHistoryMinutes == 3   \* snapshots lie at minutes 0..MaxHistoryMinutes

HistoryMinutes == 0..MaxHistoryMinutes
WindowTimes == {m * Minute : m \in 0..(MaxHistoryMinutes + 1)}
Intervals == {Minute, 2 * Minute}

LatestRow(rows) == CHOOSE r \in rows : \A q \in rows : q.timestamp <= r.timestamp

(* Stores to read from: dial 1 with any non-empty history of whole-minute *)
(* snapshots, dial 2 with one snapshot, each dial with its owner as the   *)
(* only member and with the value of its latest snapshot.                 *)
InitSlots ==
    \E ms \in (SUBSET HistoryMinutes) \ {{}} :
      \E h \in [ms -> Values] :
        /\ dial_values =
             {[dial_id |-> 1, timestamp |-> m * Minute, value |-> h[m]] : m \in ms}
             \cup {[dial_id |-> 2, timestamp |-> Minute, value |-> MaxValue]}
        /\ dials =
             {[id |-> 1, user_id |-> 1,
               value |-> h[CHOOSE m \in ms : \A k \in ms : k <= m]],
              [id |-> 2, user_id |-> MaxUsers, value |-> MaxValue]}
        /\ dial_memberships =
             {[dial_id |-> 1, user_id |-> 1, value |-> 0],
              [dial_id |-> 2, user_id |-> MaxUsers, value |-> 0]}
        /\ nextDialID = 3
        /\ clock = (MaxHistoryMinutes + 1) * Minute
        /\ events = NoEvents
        /\ lastOp = Op("init", 0, 0, "nil", NoRefresh)
        /\ lastUpsert = None
        /\ opCount = 0
        /\ slots = None
        /\ report = None
        /\ users = {}
        /\ auths = {}
        /\ lastAuth = None
        /\ DBType = "sqlite"
        /\ txs = <<>>

(* the call reads and leaves the store as it is, so one call per store *)
(* shows everything a sequence of calls can show                       *)
FindDialValueSlotsBetween(id, start, end, interval) ==
    /\ slots = None
    /\ \E first \in InitialValues(dial_values, id, start),
          rows \in RowOrders(RangeRows(dial_values, id, start, end)),
          dbErr \in DBErrors :
          /\ slots' = [op |-> "slots", id |-> id, start |-> start, end |-> end,
                       interval |-> interval,
                       result |-> findDialValueSlotsBetween(id, start, end,
                                                            interval, first, rows,
                                                            dbErr)]
          /\ UNCHANGED <<dials, dial_memberships, dial_values, nextDialID, clock,
                         events, lastOp, lastUpsert, opCount, report, authVars, txVars>>

NextSlots ==
    \E id \in {1, 2}, start \in WindowTimes, end \in WindowTimes,
       interval \in Intervals :
        FindDialValueSlotsBetween(id, start, end, interval)

SpecSlots == InitSlots /\ [][NextSlots]_vars

(* a call that ran to its end on a window aligned to a positive interval *)
AlignedCall ==
    /\ slots # None
    /\ slots.interval > 0
    /\ slots.start % slots.interval = 0
    /\ slots.end % slots.interval = 0
    /\ slots.start <= slots.end
    /\ slots.result.err = "nil"

SnapshotsOf(id) == {r \in dial_values : r.dial_id = id}

(* the value in force just before time t: that of the latest snapshot *)
(* strictly before t, 0 when there is none                            *)
StepValueBefore(id, t) ==
    LET rows == {r \in SnapshotsOf(id) : r.timestamp < t}
    IN IF rows = {} THEN 0 ELSE LatestRow(rows).value

(* C7: for an aligned window the call returns (end - start) / interval   *)
(* values, and value i is that of the latest snapshot strictly before    *)
(* start + (i+1)*interval, 0 when there is none.                         *)
C7_DenseStepFunction ==
    AlignedCall =>
        /\ slots.result.panic = "none"
        /\ Len(slots.result.values) = (slots.end - slots.start) \div slots.interval
        /\ \A i \in DOMAIN slots.result.values :
             slots.result.values[i]
               = StepValueBefore(slots.id, slots.start + i * slots.interval)

SnapshotsIn(id, from, to) ==
    {r \in SnapshotsOf(id) : r.timestamp >= from /\ r.timestamp < to}

(* C8: with no snapshot inside [start, end), every slot holds the value of *)
(* the latest snapshot at or before start, and 0 when there is none.       *)
C8_SeedFromBeforeWindow ==
    (AlignedCall /\ SnapshotsIn(slots.id, slots.start, slots.end) = {}) =>
        LET before == {r \in SnapshotsOf(slots.id) : r.timestamp <= slots.start}
        IN /\ slots.result.panic = "none"
           /\ \A i \in DOMAIN slots.result.values :
                slots.result.values[i]
                  = IF before = {} THEN 0 ELSE LatestRow(before).value

(* C9: a snapshot exactly at start is assigned to slot 0 (it is what slot  *)
(* 0 holds after the assignment loop when no other snapshot falls into     *)
(* that slot), and the snapshots at or after end change no slot: the call  *)
(* does not panic and returns a result it can return for the store without *)
(* them.                                                                   *)
C9_BoundaryInclusivity ==
    (AlignedCall /\ slots.start < slots.end) =>
        /\ slots.result.panic = "none"
        /\ \A r \in SnapshotsOf(slots.id) :
             (/\ r.timestamp = slots.start
              /\ SnapshotsIn(slots.id, slots.start,
                             slots.start + slots.interval) = {r})
             => slots.result.assigned[1] = r.value
        /\ slots.result \in
             SlotsOutcomes({r \in dial_values : r.timestamp < slots.end},
                           slots.id, slots.start, slots.end, slots.interval)

(* a window has been read whose dial has a snapshot exactly at start, *)
(* with a value of its own, and one exactly at end                    *)
C9_Witness ==
    /\ AlignedCall
    /\ slots.start < slots.end
    /\ slots.result.panic = "none"
    /\ \E r \in SnapshotsOf(slots.id), q \in SnapshotsOf(slots.id) :
         /\ r.timestamp = slots.start
         /\ q.timestamp = slots.end
         /\ r.value # q.value
         /\ \A p \in SnapshotsOf(slots.id) :
              p.timestamp < slots.start => p.value # r.value
         /\ slots.result.assigned[1] = r.value

(* C10: a slot that several snapshots fall into holds the value of the *)
(* latest of them, in whatever order the rows came back.               *)
C10_LatestInSlotWins ==
    AlignedCall =>
        \A i \in DOMAIN slots.result.values :
            LET inSlot == SnapshotsIn(slots.id,
                                      slots.start + (i - 1) * slots.interval,
                                      slots.start + i * slots.interval)
            IN Cardinality(inSlot) >= 2 =>
                 slots.result.values[i] = LatestRow(inSlot).value

----------------------------------------------------------------------------
(* The report: DialService.AverageDialValueReport *)

(* findDials without the membership subquery *)
findDials_all(ds, ms, user) == ds

(* findDials with an empty filter: the dials the user has a membership *)
(* in, found by a statement without ORDER BY                           *)
findDials(ds, ms, user) ==
    {d \in ds : \E m \in ms : m.dial_id = d.id /\ m.user_id = user}

(* what the two queries of findDialValueSlotsBetween can yield for a dial *)
DialQueries(dv, id, start, end) ==
    {[first |-> f, rows |-> r, dbErr |-> e] :
        f \in InitialValues(dv, id, start),
        r \in RowOrders(RangeRows(dv, id, start, end)),
        e \in DBErrors}

(* one choice of query results for each of the dials *)
RECURSIVE QueryChoices(_, _, _, _)
QueryChoices(dv, ids, start, end) ==
    IF ids = {} THEN {<<>>}
    ELSE LET id == CHOOSE x \in ids : TRUE
         IN {(id :> c) @@ f :
                c \in DialQueries(dv, id, start, end),
                f \in QueryChoices(dv, ids \ {id}, start, end)}

(* start = start.Truncate(interval); end = end.Truncate(interval) *)
ReportWindow_noTruncate(start, end, interval) ==
    [start |-> start, end |-> end]

ReportWindow(start, end, interval) ==
    [start |-> Truncate(start, interval), end |-> Truncate(end, interval)]

(* the loop over the dials: the calls of findDialValueSlotsBetween it *)
(* makes, the last of them the first that did not return its values   *)
RECURSIVE DialCalls(_, _, _, _, _)
DialCalls(ids, start, end, interval, q) ==
    IF ids = <<>> THEN <<>>
    ELSE LET id == Head(ids)
             r == findDialValueSlotsBetween(id, start, end, interval,
                                            q[id].first, q[id].rows, q[id].dbErr)
         IN IF r.panic # "none" \/ r.err # "nil"
            THEN <<[id |-> id, result |-> r]>>
            ELSE <<[id |-> id, result |-> r]>>
                 \o DialCalls(Tail(ids), start, end, interval, q)

(* what the report call ends with: a run-time panic, a nil report with  *)
(* an error, or a report; calls is what the loop over the dials called  *)
ReportPanic(msg, calls) ==
    [panic |-> msg, err |-> "nil", id |-> 0, hasReport |-> FALSE,
     records |-> <<>>, calls |-> calls]

(* return nil, fmt.Errorf("dial values between: id=%d err=%w", dial.ID, err) *)
ReportError_anonymous(id, err, calls) ==
    [panic |-> "none", err |-> "dial values between", id |-> 0,
     hasReport |-> FALSE, records |-> <<>>, calls |-> calls]

ReportError(id, err, calls) ==
    [panic |-> "none", err |-> "dial values between", id |-> id,
     hasReport |-> FALSE, records |-> <<>>, calls |-> calls]

ReportReturned(records, calls) ==
    [panic |-> "none", err |-> "nil", id |-> 0, hasReport |-> TRUE,
     records |-> records, calls |-> calls]

(* for j := range dials { sum += valuesSlice[j][i] } *)
RECURSIVE SumSlot(_, _, _)
SumSlot(valuesSlice, i, j) ==
    IF j > Len(valuesSlice) THEN 0
    ELSE valuesSlice[j][i] + SumSlot(valuesSlice, i, j + 1)

(* avg = sum / len(valuesSlice) *)
SlotAverage_rounded(valuesSlice, i) ==
    Round(SumSlot(valuesSlice, i, 1), Len(valuesSlice))

SlotAverage(valuesSlice, i) ==
    GoDiv(SumSlot(valuesSlice, i, 1), Len(valuesSlice))

(* the loop that computes the average for each slot and sets its record *)
ReportRecords_noDialsNoRecords(start, interval, slotN, valuesSlice, nDials) ==
    [i \in 1..(IF nDials # 0 THEN slotN ELSE 0) |->
        [timestamp |-> start + (i - 1) * interval,
         value |-> SlotAverage(valuesSlice, i)]]

ReportRecords(start, interval, slotN, valuesSlice, nDials) ==
    [i \in 1..slotN |->
        [timestamp |-> start + (i - 1) * interval,
         value |-> IF nDials # 0 THEN SlotAverage(valuesSlice, i) ELSE 0]]

(* AverageDialValueReport for the dials findDials returned, in the order *)
(* it returned them, and the query results q of each of them             *)
DialValueReport(ids, start, end, interval, q) ==
    LET w == ReportWindow(start, end, interval)
    IN IF interval = 0 THEN ReportPanic("integer divide by zero", <<>>)
       ELSE LET slotN == GoDiv(w.end - w.start, interval)
            IN IF slotN < 0
               THEN ReportPanic("makeslice: len out of range", <<>>)
               ELSE LET calls == DialCalls(ids, w.start, w.end, interval, q)
                        last == calls[Len(calls)]
                    IN IF calls # <<>> /\ last.result.panic # "none"
                       THEN ReportPanic(last.result.panic, calls)
                       ELSE IF calls # <<>> /\ last.result.err # "nil"
                       THEN ReportError(last.id, last.result.err, calls)
                       ELSE ReportReturned(
                                ReportRecords(w.start, interval, slotN,
                                              [k \in 1..Len(calls) |->
                                                  calls[k].result.values],
                                              Len(ids)),
                                calls)

MaxReportMinutes == 2   \* snapshots lie at minutes 0..MaxReportMinutes

ReportMinutes == 0..MaxReportMinutes
ReportTimes == {m * 30 * Second : m \in 0..(2 * (MaxReportMinutes + 1))}
ReportIntervals == {-Minute, 0, 30 * Second, Minute, 2 * Minute}

(* wtf.UserIDFromContext: a user, or 0 when nobody is logged in *)
Callers == 0..MaxUsers

(* Stores to report on: dial 1 with any non-empty history of whole-minute *)
(* snapshots, dial 2 with one snapshot; user 1 owns dial 1 and is a       *)
(* member of dial 2, the last user owns dial 2.                           *)
InitReport ==
    \E ms \in (SUBSET ReportMinutes) \ {{}}, v \in 0..MaxValue :
      \E h \in [ms -> Values] :
        /\ dial_values =
             {[dial_id |-> 1, timestamp |-> m * Minute, value |-> h[m]] : m \in ms}
             \cup {[dial_id |-> 2, timestamp |-> Minute, value |-> v]}
        /\ dials =
             {[id |-> 1, user_id |-> 1,
               value |-> h[CHOOSE m \in ms : \A k \in ms : k <= m]],
              [id |-> 2, user_id |-> MaxUsers, value |-> v]}
        /\ dial_memberships =
             {[dial_id |-> 1, user_id |-> 1, value |-> 0],
              [dial_id |-> 2, user_id |-> 1, value |-> 0],
              [dial_id |-> 2, user_id |-> MaxUsers, value |-> 0]}
        /\ nextDialID = 3
        /\ clock = (MaxReportMinutes + 1) * Minute
        /\ events = NoEvents
        /\ lastOp = Op("init", 0, 0, "nil", NoRefresh)
        /\ lastUpsert = None
        /\ opCount = 0
        /\ slots = None
        /\ report = None
        /\ users = {}
        /\ auths = {}
        /\ lastAuth = None
        /\ DBType = "sqlite"
        /\ txs = <<>>

(* everything AverageDialValueReport can return on a store: the dials come *)
(* in any order and each dial's queries yield any of their results         *)
AverageDialValueResults(ds, ms, dv, user, start, end, interval) ==
    LET w == ReportWindow(start, end, interval)
        visible == findDials(ds, ms, user)
    IN UNION {{DialValueReport([k \in DOMAIN order |-> order[k].id],
                               start, end, interval, q) :
                  q \in QueryChoices(dv, {d.id : d \in visible},
                                     w.start, w.end)} :
              order \in RowOrders(visible)}

(* the call reads and leaves the store as it is, so one call per store *)
(* shows everything a sequence of calls can show                       *)
AverageDialValueReport(user, start, end, interval) ==
    /\ report = None
    /\ \E r \in AverageDialValueResults(dials, dial_memberships, dial_values,
                                        user, start, end, interval) :
           report' = [op |-> "report", user |-> user, start |-> start,
                      end |-> end, interval |-> interval, result |-> r]
    /\ UNCHANGED <<dials, dial_memberships, dial_values, nextDialID, clock,
                   events, lastOp, lastUpsert, opCount, slots, authVars,
                   txVars>>

NextReport ==
    \E user \in Callers, start \in ReportTimes, end \in ReportTimes,
       interval \in ReportIntervals :
        AverageDialValueReport(user, start, end, interval)

SpecReport == InitReport /\ [][NextReport]_vars

(* what the claims about the report are stated in *)
VisibleIDs == {m.dial_id : m \in {x \in dial_memberships : x.user_id = report.user}}

TruncStart == report.start - (report.start % report.interval)
TruncEnd == report.end - (report.end % report.interval)
SlotCount == (TruncEnd - TruncStart) \div report.interval

(* a report call with a positive interval whose window does not end *)
(* before it starts                                                 *)
ValidWindow ==
    /\ report # None
    /\ report.interval > 0
    /\ report.start <= report.end

(* C11: a report over no visible dial has, for a window of slotCount > 0 *)
(* slots, exactly slotCount records, every one with the value 0; it is   *)
(* not empty and the call does not end in a division by zero.            *)
C11_NoDialsAllZero ==
    (ValidWindow /\ VisibleIDs = {} /\ SlotCount > 0) =>
        /\ report.result.panic = "none"
        /\ report.result.err = "nil"
        /\ report.result.hasReport
        /\ Len(report.result.records) = SlotCount
        /\ \A i \in DOMAIN report.result.records :
             report.result.records[i].value = 0

(* a report of several slots has been made for a caller who sees no dial *)
C11_Witness ==
    /\ ValidWindow
    /\ VisibleIDs = {}
    /\ SlotCount >= 2
    /\ report.result.hasReport
    /\ Len(report.result.records) = SlotCount

(* the sum of what the reconstructions returned for slot i *)
RECURSIVE SlotTotal(_, _)
SlotTotal(calls, i) ==
    IF calls = <<>> THEN 0
    ELSE Head(calls).result.values[i] + SlotTotal(Tail(calls), i)

(* the quotient of a by n > 0, truncated toward zero *)
TruncQuotient(a, n) == IF a >= 0 THEN a \div n ELSE -((-a) \div n)

(* C12: with a non-empty set of visible dials, record i holds the sum of *)
(* the reconstructed slot-i values of exactly the visible dials, divided *)
(* by their number with the quotient truncated.                          *)
C12_TruncatedMeanOfVisible ==
    (ValidWindow /\ VisibleIDs # {} /\ report.result.hasReport) =>
        LET calls == report.result.calls
        IN /\ Len(calls) = Cardinality(VisibleIDs)
           /\ {calls[k].id : k \in DOMAIN calls} = VisibleIDs
           /\ \A k \in DOMAIN calls :
                calls[k].result \in
                    SlotsOutcomes(dial_values, calls[k].id, TruncStart, TruncEnd,
                                  report.interval)
           /\ \A i \in DOMAIN report.result.records :
                report.result.records[i].value
                  = TruncQuotient(SlotTotal(calls, i), Len(calls))

(* a report over two dials has a slot whose values add up to an odd sum, *)
(* and the record of that slot holds the truncated half of it            *)
C12_Witness ==
    /\ ValidWindow
    /\ report.result.hasReport
    /\ Len(report.result.calls) = 2
    /\ \E i \in DOMAIN report.result.records :
         /\ SlotTotal(report.result.calls, i) = 1
         /\ report.result.records[i].value = 0

(* no query of the call failed *)
NoQueryFailed ==
    \A k \in DOMAIN report.result.calls :
        report.result.calls[k].result.err = "nil"

(* C13: the report truncates start and end down to multiples of the     *)
(* interval and returns exactly (truncEnd - truncStart) / interval      *)
(* records, record i at truncStart + i * interval: the timestamps are   *)
(* strictly increasing, aligned to the interval, in [truncStart,        *)
(* truncEnd).                                                           *)
C13_TruncatedWindowRecords ==
    (ValidWindow /\ NoQueryFailed) =>
        LET records == report.result.records
        IN /\ report.result.panic = "none"
           /\ report.result.hasReport
           /\ Len(records) = SlotCount
           /\ \A i \in DOMAIN records :
                /\ records[i].timestamp = TruncStart + (i - 1) * report.interval
                /\ records[i].timestamp % report.interval = 0
                /\ records[i].timestamp >= TruncStart
                /\ records[i].timestamp < TruncEnd
                /\ i > 1 => records[i - 1].timestamp < records[i].timestamp

(* a report of several records has been made for a window whose start *)
(* and end both lie off the interval's boundaries                     *)
C13_Witness ==
    /\ ValidWindow
    /\ NoQueryFailed
    /\ report.start % report.interval # 0
    /\ report.end % report.interval # 0
    /\ report.result.hasReport
    /\ Len(report.result.records) >= 2
    /\ report.result.records[1].timestamp = TruncStart
    /\ report.result.records[1].timestamp < report.start

(* what refreshDialValue computes for a dial whose memberships are the *)
(* only ones stored and hold the values a and b                       *)
RecomputedOf(a, b) ==
    AvgMembershipValue({[dial_id |-> 1, user_id |-> 1, value |-> a],
                        [dial_id |-> 1, user_id |-> 2, value |-> b]}, 1)

(* C14: the recomputation and the report round alike: the value that   *)
(* recomputing the contributions {a, b} stores equals the slot average *)
(* the report gives for two dials whose slot values are a and b.       *)
C14_SameRoundingAsRecompute ==
    (ValidWindow /\ report.result.hasReport /\ Len(report.result.calls) = 2) =>
        \A i \in DOMAIN report.result.records :
            report.result.records[i].value
              = RecomputedOf(report.result.calls[1].result.values[i],
                             report.result.calls[2].result.values[i])

(* C15: a report call whose window is invalid (end <= start, or an   *)
(* interval that is not positive) is rejected with an InvalidWindow  *)
(* error before anything is computed: no query is made, nothing      *)
(* panics, no report is returned.                                    *)
C15_InvalidWindowRejected ==
    (/\ report # None
     /\ report.end <= report.start \/ report.interval <= 0) =>
        /\ report.result.panic = "none"
        /\ report.result.err = "InvalidWindow"
        /\ ~report.result.hasReport
        /\ report.result.calls = <<>>

(* C16: a reconstruction whose slot count (end - start) / interval is *)
(* zero or negative, a window that ends before it starts included,    *)
(* returns the empty sequence, without an error and without a panic.  *)
C16_NonPositiveSlotCountIsEmpty ==
    (/\ slots # None
     /\ slots.interval > 0
     /\ TruncQuotient(slots.end - slots.start, slots.interval) <= 0) =>
        /\ slots.result.panic = "none"
        /\ slots.result.err = "nil"
        /\ slots.result.values = <<>>

(* the calls of the report whose queries failed *)
FailedCalls ==
    {k \in DOMAIN report.result.calls :
        report.result.calls[k].result.err # "nil"}

(* C17: when the reconstruction of a visible dial fails, the report call *)
(* returns an error that names that dial's id, and no report at all.     *)
C17_FailureAbortsWholeReport ==
    (report # None /\ FailedCalls # {}) =>
        /\ report.result.panic = "none"
        /\ report.result.err = "dial values between"
        /\ \E k \in FailedCalls : report.result.id = report.result.calls[k].id
        /\ ~report.result.hasReport
        /\ report.result.records = <<>>

(* the reconstruction of the second of two dials has failed after that *)
(* of the first one returned its slots                                 *)
C17_Witness ==
    /\ ValidWindow
    /\ Len(report.result.calls) = 2
    /\ FailedCalls = {2}
    /\ report.result.calls[1].result.values # <<>>
    /\ report.result.id = report.result.calls[2].id
    /\ ~report.result.hasReport

----------------------------------------------------------------------------
(* The history that creations and recomputations leave *)

EarliestRow(rows) == CHOOSE r \in rows : \A q \in rows : r.timestamp <= q.timestamp

CreatedDial == lastOp.op = "CreateDial" /\ lastOp.err = "nil"

(* C18, as stated: after CreateDial succeeds the history of the dial is *)
(* not empty and its earliest snapshot holds the value the dial was     *)
(* created with, at the minute-truncated creation time.                 *)
C18_InitialSnapshotHoldsInitialValue ==
    CreatedDial =>
        LET h == SnapshotsOf(lastOp.id)
        IN /\ h # {}
           /\ EarliestRow(h).timestamp = clock - (clock % Minute)
           /\ EarliestRow(h).value = lastOp.oldValue

(* C18, amended: after CreateDial succeeds the history of the dial is   *)
(* not empty, its earliest snapshot lies at the minute-truncated        *)
(* creation time and its latest snapshot holds the value the dial is    *)
(* stored with; the earliest snapshot holds the value the dial was      *)
(* created with when the recomputation for the owner's membership left  *)
(* that value as it was.                                                *)
C18_InitialSnapshotHoldsStoredValue ==
    CreatedDial =>
        LET h == SnapshotsOf(lastOp.id)
        IN /\ h # {}
           /\ EarliestRow(h).timestamp = clock - (clock % Minute)
           /\ LatestRow(h).value = DialValue(dials, lastOp.id)
           /\ lastOp.newValue = lastOp.oldValue
                => EarliestRow(h).value = lastOp.oldValue

(* a dial has been created with a value that the recomputation for its *)
(* owner's membership replaced, in the dial and in its only snapshot   *)
C18_Witness ==
    /\ CreatedDial
    /\ lastOp.newValue # lastOp.oldValue
    /\ clock % Minute # 0
    /\ SnapshotsOf(lastOp.id)
         = {[dial_id |-> lastOp.id, timestamp |-> clock - (clock % Minute),
             value |-> lastOp.newValue]}

(* two snapshots of one dial with no snapshot of that dial between them *)
Adjacent(r, q) ==
    /\ r.dial_id = q.dial_id
    /\ r.timestamp < q.timestamp
    /\ ~\E p \in SnapshotsOf(r.dial_id) :
          r.timestamp < p.timestamp /\ p.timestamp < q.timestamp

(* C19, as stated: the history holds transitions only: whatever the   *)
(* creations and recomputations were, several changes within a minute *)
(* included, no two snapshots of a dial that are adjacent in time     *)
(* hold the same value.                                               *)
C19_AdjacentSnapshotsDiffer ==
    \A r \in dial_values, q \in dial_values :
        Adjacent(r, q) => r.value # q.value

(* the snapshots of a dial before a time *)
EarlierRows(dv, id, t) == {q \in dv : q.dial_id = id /\ q.timestamp < t}

(* C19, amended: a snapshot is added for a minute that had none only on *)
(* a transition: its value differs from that of the latest earlier      *)
(* snapshot of the dial.                                                *)
C19_NewMinuteOnlyOnTransition ==
    [][\A r \in dial_values' :
          (/\ ~\E q \in dial_values :
                 q.dial_id = r.dial_id /\ q.timestamp = r.timestamp
           /\ EarlierRows(dial_values, r.dial_id, r.timestamp) # {})
          => LatestRow(EarlierRows(dial_values, r.dial_id, r.timestamp)).value
               # r.value]_vars

(* a recomputation has added a snapshot for a new minute to a dial that *)
(* had one for an earlier minute, with another value                    *)
C19_Witness ==
    /\ lastOp.op \in RecomputeOps
    /\ lastOp.err = "nil"
    /\ lastUpsert # None
    /\ ~lastUpsert.existed
    /\ \E r \in dial_values, q \in dial_values :
         /\ Adjacent(r, q)
         /\ q.dial_id = lastUpsert.dial_id
         /\ q.timestamp = lastUpsert.timestamp - (lastUpsert.timestamp % Minute)
         /\ q.value = lastUpsert.value
         /\ r.value # q.value

(* C20: a positive interval below one minute makes neither the       *)
(* reconstruction nor the report fail: on every window the call       *)
(* returns, without an error, a sequence of slotCount values for each *)
(* visible dial, every slot holding the carried-forward value of the  *)
(* latest snapshot at or before it.                                   *)
C20_SubMinuteInterval ==
    (ValidWindow /\ report.interval < Minute /\ NoQueryFailed) =>
        /\ report.result.panic = "none"
        /\ report.result.err = "nil"
        /\ report.result.hasReport
        /\ Len(report.result.records) = SlotCount
        /\ \A k \in DOMAIN report.result.calls :
             LET call == report.result.calls[k]
             IN /\ call.result.panic = "none"
                /\ Len(call.result.values) = SlotCount
                /\ \A i \in DOMAIN call.result.values :
                     call.result.values[i]
                       = StepValueBefore(call.id, TruncStart + i * report.interval)

----------------------------------------------------------------------------
(* Concurrent service calls: SetDialMembershipValue in transactions that  *)
(* overlap.  Each call runs in a transaction of its own (BeginTx with nil *)
(* options: the engine's default isolation) and one action is one         *)
(* statement.  The tables hold what is committed; a transaction sees the  *)
(* committed rows and its own writes.                                     *)
(*   sqlite   (WAL): one writer at a time; a transaction that read before *)
(*            another one committed cannot write any more and fails with  *)
(*            "database is locked".                                       *)
(*   postgres (READ COMMITTED): every statement reads what is committed   *)
(*            when it runs; a write waits for the transaction that holds  *)
(*            the row.                                                    *)

MaxTxs == 2   \* concurrent service calls

TxIDs == 1..MaxTxs
DBTypes == {"sqlite", "postgres"}

NoWrites == [add |-> {}, del |-> {}]

IdleTx ==
    [pc |-> "idle", user |-> 0, dial |-> 0, value |-> 0, seen |-> 0,
     locks |-> {}, ms |-> NoWrites, ds |-> NoWrites, dv |-> NoWrites,
     oldValue |-> 0, newValue |-> 0, err |-> "nil", events |-> NoEvents,
     upsert |-> None]

Active(t) == txs[t].pc \notin {"idle", "committed", "failed"}

(* the writing transactions committed so far *)
Commits ==
    Cardinality({t \in TxIDs : txs[t].pc = "committed" /\ txs[t].locks # {}})

(* a table as a transaction with the writes w sees it, and the writes *)
(* that turn the committed table into a view                          *)
View(table, w) == (table \ w.del) \cup w.add
Diff(table, view) == [add |-> view \ table, del |-> table \ view]

(* what a write has to lock: the database, or the row *)
LockKey(table, key) ==
    IF DBType = "sqlite" THEN <<"database">> ELSE <<table>> \o key

CanLock(t, k) ==
    /\ \A o \in TxIDs \ {t} : Active(o) => k \notin txs[o].locks
    /\ DBType = "sqlite" => txs[t].seen = Commits

(* SQLITE_BUSY: the write lock is taken, or the snapshot read is stale *)
Busy(t, k) == DBType = "sqlite" /\ ~CanLock(t, k)

TxUnchanged ==
    UNCHANGED <<dials, dial_memberships, dial_values, nextDialID, clock,
                events, lastOp, lastUpsert, opCount, slots, report, authVars,
                DBType>>

(* a statement returned an error: the deferred Rollback drops the writes *)
TxFail(t, err) ==
    /\ txs' = [txs EXCEPT ![t].pc = "failed", ![t].err = err]
    /\ TxUnchanged

(* s.db.BeginTx(ctx, nil) *)
BeginTx(t, user, dialID, value) ==
    /\ txs[t].pc = "idle"
    /\ txs' = [txs EXCEPT ![t] = [IdleTx EXCEPT !.pc = "find", !.user = user,
                                                 !.dial = dialID,
                                                 !.value = value]]
    /\ TxUnchanged

(* findDialMemberships: the first read of the transaction *)
TxFindDialMemberships(t) ==
    /\ txs[t].pc = "find"
    /\ IF \E m \in View(dial_memberships, txs[t].ms) :
              m.dial_id = txs[t].dial /\ m.user_id = txs[t].user
       THEN /\ txs' = [txs EXCEPT ![t].pc = "update", ![t].seen = Commits]
            /\ TxUnchanged
       ELSE TxFail(t, "ENOTFOUND")

(* updateDialMembership: UPDATE dial_memberships SET value = ? *)
TxUpdateDialMembership(t) ==
    /\ txs[t].pc = "update"
    /\ LET k == LockKey("dial_memberships", <<txs[t].dial, txs[t].user>>)
           ms1 == updateDialMembership(View(dial_memberships, txs[t].ms),
                                       txs[t].user, txs[t].dial, txs[t].value)
       IN \/ Busy(t, k) /\ TxFail(t, "database is locked")
          \/ /\ CanLock(t, k)
             /\ txs' = [txs EXCEPT ![t].pc = "scan",
                                   ![t].locks = @ \cup {k},
                                   ![t].ms = Diff(dial_memberships, ms1)]
             /\ TxUnchanged

(* refreshDialValue: SELECT value FROM dials WHERE id = ? *)
TxScanOldValue(t) ==
    /\ txs[t].pc = "scan"
    /\ txs' = [txs EXCEPT
                 ![t].pc = "avg",
                 ![t].oldValue = ScanOldValue(View(dials, txs[t].ds),
                                              txs[t].dial).value]
    /\ TxUnchanged

(* refreshDialValue: SELECT ... AVG(value) ...; oldValue == newValue *)
TxAvgMembershipValue(t) ==
    /\ txs[t].pc = "avg"
    /\ LET newValue == AvgMembershipValue(View(dial_memberships, txs[t].ms),
                                          txs[t].dial)
       IN txs' = [txs EXCEPT
                    ![t].pc = IF txs[t].oldValue = newValue
                              THEN "commit" ELSE "updateDial",
                    ![t].newValue = newValue]
    /\ TxUnchanged

(* refreshDialValue: UPDATE dials SET value = ? WHERE id = ? *)
TxUpdateDialValue(t) ==
    /\ txs[t].pc = "updateDial"
    /\ LET k == LockKey("dials", <<txs[t].dial>>)
           ds1 == UpdateDialValue(View(dials, txs[t].ds), txs[t].dial,
                                  txs[t].newValue)
       IN \/ Busy(t, k) /\ TxFail(t, "database is locked")
          \/ /\ CanLock(t, k)
             /\ txs' = [txs EXCEPT ![t].pc = "insert",
                                   ![t].locks = @ \cup {k},
                                   ![t].ds = Diff(dials, ds1)]
             /\ TxUnchanged

(* refreshDialValue: insertDialValue(ctx, tx, id, newValue, now) *)
TxInsertDialValue(t) ==
    /\ txs[t].pc = "insert"
    /\ LET k == LockKey("dial_values",
                        <<txs[t].dial, Truncate(TxNow, Minute)>>)
           ins == insertDialValue(View(dial_values, txs[t].dv),
                                  View(dials, txs[t].ds), txs[t].dial,
                                  txs[t].newValue, TxNow)
       IN \/ Busy(t, k) /\ TxFail(t, "database is locked")
          \/ /\ CanLock(t, k)
             /\ IF ins.err # "nil"
                THEN TxFail(t, ins.err)
                ELSE /\ txs' = [txs EXCEPT
                                  ![t].pc = "publish",
                                  ![t].locks = @ \cup {k},
                                  ![t].dv = Diff(dial_values, ins.dial_values),
                                  ![t].upsert =
                                      UpsertCall(View(dial_values, txs[t].dv),
                                                 txs[t].dial, txs[t].newValue,
                                                 TxNow)]
                     /\ TxUnchanged

(* refreshDialValue: publishDialEvent, before the transaction commits *)
TxPublishDialEvent(t) ==
    /\ txs[t].pc = "publish"
    /\ LET ev == publishDialEvent(View(dial_memberships, txs[t].ms),
                                  txs[t].dial,
                                  [id |-> txs[t].dial,
                                   value |-> txs[t].newValue])
       IN /\ txs' = [txs EXCEPT ![t].pc = "commit", ![t].events = ev]
          /\ events' = ev
    /\ UNCHANGED <<dials, dial_memberships, dial_values, nextDialID, clock,
                   lastOp, lastUpsert, opCount, slots, report, authVars,
                   DBType>>

(* tx.Tx.Commit() returned nil: the writes are committed *)
TxCommit(t) ==
    /\ txs[t].pc = "commit"
    /\ dial_memberships' = View(dial_memberships, txs[t].ms)
    /\ dials' = View(dials, txs[t].ds)
    /\ dial_values' = View(dial_values, txs[t].dv)
    /\ txs' = [txs EXCEPT ![t].pc = "committed"]
    /\ UNCHANGED <<nextDialID, clock, events, lastOp, lastUpsert, opCount,
                   slots, report, authVars, DBType>>

(* tx.Tx.Commit() returned an error: nothing of the transaction is stored *)
TxCommitFails(t) ==
    /\ txs[t].pc = "commit"
    /\ TxFail(t, "commit failed")

(* one dial that every user is a member of, stored with the mean of the *)
(* membership values and with one snapshot of it                        *)
InitTx ==
    \E dbType \in DBTypes, m \in [Users -> Values] :
        LET ms == {[dial_id |-> 1, user_id |-> u, value |-> m[u]] : u \in Users}
            v == AvgMembershipValue(ms, 1)
        IN /\ dials = {[id |-> 1, user_id |-> 1, value |-> v]}
           /\ dial_memberships = ms
           /\ dial_values = {[dial_id |-> 1, timestamp |-> 0, value |-> v]}
           /\ nextDialID = 2
           /\ clock = 0
           /\ events = NoEvents
           /\ lastOp = Op("init", 0, 0, "nil", NoRefresh)
           /\ lastUpsert = None
           /\ opCount = 0
           /\ slots = None
           /\ report = None
           /\ users = {}
           /\ auths = {}
           /\ lastAuth = None
           /\ DBType = dbType
           /\ txs = [t \in TxIDs |-> IdleTx]

NextTx ==
    \E t \in TxIDs :
        \/ \E user \in Users, d \in dials, value \in Values :
              BeginTx(t, user, d.id, value)
        \/ TxFindDialMemberships(t)
        \/ TxUpdateDialMembership(t)
        \/ TxScanOldValue(t)
        \/ TxAvgMembershipValue(t)
        \/ TxUpdateDialValue(t)
        \/ TxInsertDialValue(t)
        \/ TxPublishDialEvent(t)
        \/ TxCommit(t)
        \/ TxCommitFails(t)

SpecTx == InitTx /\ [][NextTx]_vars

(* every service call has returned *)
AllReturned == \A t \in TxIDs : txs[t].pc \in {"committed", "failed"}

(* the transactions that committed an upsert of a key *)
Writers(id, ts) ==
    {t \in TxIDs : /\ txs[t].pc = "committed"
                   /\ txs[t].upsert # None
                   /\ txs[t].upsert.dial_id = id
                   /\ txs[t].upsert.timestamp - (txs[t].upsert.timestamp % Minute)
                        = ts}

(* C21: concurrent upserts of one (dial, minute) key are atomic, the    *)
(* last writer wins: at no point of any interleaving are there two rows *)
(* for a key, and when the writers have returned there is exactly one   *)
(* row for the key, holding the value one of them wrote.                *)
C21_ConcurrentUpsertsLastWriterWins ==
    /\ \A r \in dial_values, q \in dial_values :
         (r.dial_id = q.dial_id /\ r.timestamp = q.timestamp) => r = q
    /\ AllReturned =>
         \A w \in TxIDs :
             (txs[w].pc = "committed" /\ txs[w].upsert # None) =>
                 LET id == txs[w].upsert.dial_id
                     ts == txs[w].upsert.timestamp
                             - (txs[w].upsert.timestamp % Minute)
                 IN /\ Cardinality(RowsAt(dial_values, id, ts)) = 1
                    /\ \E t \in Writers(id, ts),
                          r \in RowsAt(dial_values, id, ts) :
                          r.value = txs[t].upsert.value

(* two calls that overlapped (both read the value the dial had at the *)
(* start) have both committed an upsert of the same key, with         *)
(* different values, and one row holds one of the two                 *)
C21_Witness ==
    /\ AllReturned
    /\ Cardinality(Writers(1, 0)) = 2
    /\ txs[1].oldValue = txs[2].oldValue
    /\ txs[1].upsert.value # txs[2].upsert.value
    /\ Cardinality(RowsAt(dial_values, 1, 0)) = 1

(* C22: two recomputations of a dial that concurrent membership updates *)
(* trigger do not race on the read-then-write: once both calls have     *)
(* committed, the dial's value is the rounded mean of the final         *)
(* membership values.                                                   *)
C22_NoLostRecomputation ==
    (\A t \in TxIDs : txs[t].pc = "committed") =>
        \A d \in dials :
            d.value = AvgMembershipValue(Members(dial_memberships, d.id), d.id)

(* C29: events reflect committed state only: when the transaction of a *)
(* membership update failed or was rolled back, no event of it has     *)
(* been published.                                                     *)
C29_NoEventWithoutCommit ==
    \A t \in TxIDs : txs[t].pc = "failed" => txs[t].events = NoEvents

(* the store of a report with every dial the caller is not a member of *)
(* taken out, together with its memberships and snapshots              *)
OwnDials == {d \in dials : d.id \in VisibleIDs}
OwnMemberships == {m \in dial_memberships : m.dial_id \in VisibleIDs}
OwnValues == {r \in dial_values : r.dial_id \in VisibleIDs}

(* C23: the report averages only over the dials the caller is a member *)
(* of: what a call returns is what the same call returns on the store  *)
(* without the dials of other users, so two stores that differ only in *)
(* non-member dials give the same reports.                             *)
C23_ReportIgnoresNonMemberDials ==
    report # None =>
        report.result \in AverageDialValueResults(
                              OwnDials, OwnMemberships, OwnValues, report.user,
                              report.start, report.end, report.interval)

C23_Witness ==
    /\ report # None
    /\ report.interval > 0
    /\ report.result.hasReport
    /\ report.result.records # <<>>
    /\ VisibleIDs = {2}
    /\ \E r \in dial_values, q \in dial_values :
          /\ r.dial_id = 1 /\ q.dial_id = 2
          /\ r.timestamp = q.timestamp
          /\ r.value # q.value
          /\ TruncStart <= r.timestamp /\ r.timestamp < TruncEnd
    /\ C23_ReportIgnoresNonMemberDials

(* the dial of a DeleteDial call exists and the caller is a member of it *)
CanSee(user, id) ==
    /\ \E d \in dials : d.id = id
    /\ \E m \in dial_memberships : m.dial_id = id /\ m.user_id = user

Owns(user, id) == \E d \in dials : d.id = id /\ d.user_id = user

(* C24: only the owner may delete a dial.  A DeleteDial call by a user   *)
(* who can see the dial but does not own it fails with EUNAUTHORIZED, a  *)
(* call for a dial that does not exist or that the caller cannot see     *)
(* fails with ENOTFOUND, and in both cases the dials, the memberships    *)
(* and the history stay as they were.                                    *)
C24_OnlyOwnerDeletes ==
    [][(lastOp'.op = "DeleteDial" /\ opCount' = opCount + 1) =>
          LET user == lastOp'.user
              id == lastOp'.id
              unchanged == /\ dials' = dials
                           /\ dial_memberships' = dial_memberships
                           /\ dial_values' = dial_values
          IN /\ (CanSee(user, id) /\ ~Owns(user, id)) =>
                    (lastOp'.err = "EUNAUTHORIZED" /\ unchanged)
             /\ ~CanSee(user, id) =>
                    (lastOp'.err = "ENOTFOUND" /\ unchanged)]_vars

C24_Witness ==
    /\ lastOp.op = "DeleteDial"
    /\ lastOp.err = "EUNAUTHORIZED"
    /\ CanSee(lastOp.user, lastOp.id)
    /\ ~Owns(lastOp.user, lastOp.id)
    /\ \E r \in dial_values : r.dial_id = lastOp.id

----------------------------------------------------------------------------
(* Authentications: AuthService.CreateAuth on the users and auths tables *)

MaxAuthOps == 3   \* CreateAuth calls in a behaviour

Sources == {"github"}
SourceIDs == {"s1", "s2"}
AccessTokens == {"a1", "a2"}
RefreshTokens == {"", "r1"}
Emails == {"e1", "e2"}

(* a nil *time.Time, a nil *wtf.User *)
NoExpiry == "nil"
NoUser == "nil"
Expiries == {NoExpiry, "t1"}

(* The wtf.Auth values CreateAuth is called with: the caller either knows *)
(* the user's ID or passes a user object with an email address; the       *)
(* access token is not empty, so that auth.Validate() passes.             *)
AuthArgs ==
    {a \in [UserID : 0..MaxUsers, User : Emails \cup {NoUser},
            Source : Sources, SourceID : SourceIDs,
            AccessToken : AccessTokens, RefreshToken : RefreshTokens,
            Expiry : Expiries] :
        (a.UserID = 0) <=> (a.User # NoUser)}

(* mapToDBAuth: a nil expiry is stored as the empty string *)
mapToDBAuth(auth) ==
    [id |-> auth.ID, user_id |-> auth.UserID, source |-> auth.Source,
     source_id |-> auth.SourceID, access_token |-> auth.AccessToken,
     refresh_token |-> auth.RefreshToken,
     expiry |-> IF auth.Expiry = NoExpiry THEN "" ELSE auth.Expiry]

(* mapFromDBAuth: an empty expiry is read as nil *)
mapFromDBAuth(row) ==
    [ID |-> row.id, UserID |-> row.user_id, Source |-> row.source,
     SourceID |-> row.source_id, AccessToken |-> row.access_token,
     RefreshToken |-> row.refresh_token,
     Expiry |-> IF row.expiry = "" THEN NoExpiry ELSE row.expiry]

(* findAuths with filter.ID set *)
findAuthByID(as, id) == {r \in as : r.id = id}

(* findAuths with filter.Source and filter.SourceID set *)
findAuthBySourceID(as, source, sourceID) ==
    {r \in as : r.source = source /\ r.source_id = sourceID}

(* findUsers with filter.Email set *)
findUserByEmail(us, email) == {u \in us : u.email = email}

(* the next value of an id column of a table nothing is deleted from *)
NextID(table) == Cardinality(table) + 1

(* tx.Tx.Model(&auth).Updates(&upAuth) with a struct: the columns whose *)
(* field in the struct is not the zero value are written                *)
Updates(row, upd) ==
    [id |-> IF upd.id = 0 THEN row.id ELSE upd.id,
     user_id |-> IF upd.user_id = 0 THEN row.user_id ELSE upd.user_id,
     source |-> IF upd.source = "" THEN row.source ELSE upd.source,
     source_id |-> IF upd.source_id = "" THEN row.source_id ELSE upd.source_id,
     access_token |-> IF upd.access_token = "" THEN row.access_token
                      ELSE upd.access_token,
     refresh_token |-> IF upd.refresh_token = "" THEN row.refresh_token
                       ELSE upd.refresh_token,
     expiry |-> IF upd.expiry = "" THEN row.expiry ELSE upd.expiry]

(* updateAuth of an auth that findAuthByID finds: the new state of the *)
(* table and the auth object that is returned                          *)
updateAuth(as, id, accessToken, refreshToken, expiry) ==
    LET row == CHOOSE r \in findAuthByID(as, id) : TRUE
        auth == [mapFromDBAuth(row) EXCEPT !.AccessToken = accessToken,
                                           !.RefreshToken = refreshToken,
                                           !.Expiry = expiry]
    IN [auths |-> (as \ {row}) \cup {Updates(row, mapToDBAuth(auth))},
        auth |-> auth]

(* createAuth: the INSERT under the constraints of the auths table *)
createAuth(us, as, auth) ==
    IF ~\E u \in us : u.id = auth.UserID
    THEN [err |-> "FOREIGN KEY constraint failed", auths |-> as, auth |-> auth]
    ELSE IF \E r \in as : r.user_id = auth.UserID /\ r.source = auth.Source
    THEN [err |-> "UNIQUE constraint failed: auths.user_id, auths.source",
          auths |-> as, auth |-> auth]
    ELSE IF \E r \in as : r.source = auth.Source /\ r.source_id = auth.SourceID
    THEN [err |-> "UNIQUE constraint failed: auths.source, auths.source_id",
          auths |-> as, auth |-> auth]
    ELSE LET a == [auth EXCEPT !.ID = NextID(as)]
         IN [err |-> "nil", auths |-> as \cup {mapToDBAuth(a)}, auth |-> a]

AuthOp(arg, err, auth) ==
    [op |-> "CreateAuth", arg |-> arg, err |-> err, auth |-> auth]

(* AuthService.CreateAuth; a failed call is rolled back *)
CreateAuth(arg) ==
    LET other == findAuthBySourceID(auths, arg.Source, arg.SourceID)
    IN /\ opCount < MaxAuthOps
       /\ opCount' = opCount + 1
       /\ IF other # {}
          THEN LET r == updateAuth(auths, (CHOOSE o \in other : TRUE).id,
                                   arg.AccessToken, arg.RefreshToken,
                                   arg.Expiry)
               IN /\ auths' = r.auths
                  /\ users' = users
                  /\ lastAuth' = AuthOp(arg, "nil", r.auth)
          ELSE LET known == findUserByEmail(users, arg.User)
                   us == IF arg.UserID # 0 \/ known # {} THEN users
                         ELSE users \cup {[id |-> NextID(users),
                                           email |-> arg.User]}
                   userID == IF arg.UserID # 0 THEN arg.UserID
                             ELSE (CHOOSE u \in us : u.email = arg.User).id
                   r == createAuth(us, auths,
                                   [ID |-> 0, UserID |-> userID,
                                    Source |-> arg.Source,
                                    SourceID |-> arg.SourceID,
                                    AccessToken |-> arg.AccessToken,
                                    RefreshToken |-> arg.RefreshToken,
                                    Expiry |-> arg.Expiry])
               IN IF r.err # "nil"
                  THEN /\ lastAuth' = AuthOp(arg, r.err, r.auth)
                       /\ UNCHANGED <<users, auths>>
                  ELSE /\ users' = us
                       /\ auths' = r.auths
                       /\ lastAuth' = AuthOp(arg, "nil", r.auth)
       /\ UNCHANGED <<dials, dial_memberships, dial_values, nextDialID, clock,
                      events, lastOp, lastUpsert, slots, report, txVars>>

(* an empty database *)
InitAuth ==
    /\ dials = {}
    /\ dial_memberships = {}
    /\ dial_values = {}
    /\ nextDialID = 1
    /\ clock = 0
    /\ events = NoEvents
    /\ lastOp = Op("init", 0, 0, "nil", NoRefresh)
    /\ lastUpsert = None
    /\ opCount = 0
    /\ slots = None
    /\ report = None
    /\ users = {}
    /\ auths = {}
    /\ lastAuth = None
    /\ DBType \in DBTypes
    /\ txs = <<>>

NextAuth == \E arg \in AuthArgs : CreateAuth(arg)

SpecAuth == InitAuth /\ [][NextAuth]_vars

(* C25: CreateAuth never duplicates an authentication of a source user. *)
(* When an auth exists for the call's (source, sourceID), the call      *)
(* creates no auth and leaves that auth with the call's tokens and      *)
(* expiry; after every call each (source, sourceID) has at most one     *)
(* auth.                                                                *)
C25_CreateAuthUpdatesExisting ==
    [][(lastAuth'.op = "CreateAuth" /\ opCount' = opCount + 1) =>
          LET arg == lastAuth'.arg
              existing == findAuthBySourceID(auths, arg.Source, arg.SourceID)
          IN /\ \A x, y \in auths' :
                    (x.source = y.source /\ x.source_id = y.source_id) => x = y
             /\ existing # {} =>
                   /\ lastAuth'.err = "nil"
                   /\ {x.id : x \in auths'} = {x.id : x \in auths}
                   /\ \A x \in findAuthBySourceID(auths', arg.Source,
                                                  arg.SourceID) :
                         /\ x.access_token = arg.AccessToken
                         /\ x.refresh_token = arg.RefreshToken
                         /\ mapFromDBAuth(x).Expiry = arg.Expiry]_vars

(* C26: the marker of an empty slot is never confused with a stored     *)
(* value, whatever integer the value is (-1 included): in an aligned     *)
(* window a slot that received one snapshot is reported with that        *)
(* snapshot's value, slot 0 seeded with v and receiving no snapshot is   *)
(* reported as v, and a later slot that received no snapshot holds the   *)
(* value of the slot before it, so that no slot is left unset.           *)
C26_UnsetMarkerNeverConfused ==
    (AlignedCall /\ slots.start < slots.end /\ slots.result.panic = "none") =>
        \A i \in DOMAIN slots.result.values :
            LET from == slots.start + (i - 1) * slots.interval
                received == SnapshotsIn(slots.id, from, from + slots.interval)
                seeds == InitialValues(dial_values, slots.id, slots.start)
            IN /\ \A r \in received :
                     received = {r} => slots.result.values[i] = r.value
               /\ (i = 1 /\ received = {}) =>
                     \A v \in seeds : seeds = {v} => slots.result.values[i] = v
               /\ (i > 1 /\ received = {}) =>
                     slots.result.values[i] = slots.result.values[i - 1]

(* C27: the history stays consistent with the current value: after any *)
(* sequence of committed creations and recomputations under a clock    *)
(* that never goes back, every dial has a snapshot, and the snapshot   *)
(* with the greatest timestamp holds the dial's stored value.          *)
C27_LatestSnapshotIsCurrentValue ==
    \A d \in dials :
        /\ SnapshotsOf(d.id) # {}
        /\ LatestRow(SnapshotsOf(d.id)).value = d.value

(* a dial whose value changed after an earlier minute left a snapshot of *)
(* another value                                                         *)
C27_Witness ==
    /\ lastOp.op \in {"SetDialMembershipValue", "refreshDialValue"}
    /\ lastOp.err = "nil"
    /\ lastOp.oldValue # lastOp.newValue
    /\ \E d \in dials :
          /\ d.id = lastOp.id
          /\ Cardinality(SnapshotsOf(d.id)) >= 2
          /\ \E r \in SnapshotsOf(d.id) : r.value # d.value
          /\ LatestRow(SnapshotsOf(d.id)).value = d.value

(* C28: slot indexing never leaves the allocated slots: for a report  *)
(* with a positive interval, every snapshot the range query returns   *)
(* for the truncated window has an index (timestamp - start) /        *)
(* interval in 0 .. slotCount-1, and no call of                       *)
(* findDialValueSlotsBetween made by the report indexes out of range. *)
C28_SlotIndexInRange ==
    (report # None /\ report.interval > 0) =>
        /\ report.result.panic # "index out of range"
        /\ \A k \in DOMAIN report.result.calls :
              report.result.calls[k].result.panic # "index out of range"
        /\ \A id \in VisibleIDs :
              \A r \in RangeRows(dial_values, id, TruncStart, TruncEnd) :
                 LET i == GoDiv(r.timestamp - TruncStart, report.interval)
                 IN 0 <= i /\ i <= SlotCount - 1

(* a report of several slots with a snapshot in the last one and one *)
(* before the window                                                 *)
C28_Witness ==
    /\ report # None
    /\ report.interval > 0
    /\ report.result.hasReport
    /\ SlotCount >= 2
    /\ \E id \in VisibleIDs :
          /\ \E r \in RangeRows(dial_values, id, TruncStart, TruncEnd) :
                GoDiv(r.timestamp - TruncStart, report.interval) = SlotCount - 1
          /\ \E r \in dial_values : r.dial_id = id /\ r.timestamp < TruncStart
          /\ \E r \in dial_values : r.dial_id = id /\ r.timestamp >= TruncEnd

(* C30: a recomputation of dial E writes only to E: a refreshDialValue(E) *)
(* that succeeds, short-circuits or fails leaves the stored value and    *)
(* the snapshots of every other dial, and all memberships, as they were. *)
C30_RefreshWritesOnlyItsDial ==
    [][(lastOp'.op = "refreshDialValue" /\ opCount' = opCount + 1) =>
          LET E == lastOp'.id
          IN /\ {d \in dials' : d.id # E} = {d \in dials : d.id # E}
             /\ {r \in dial_values' : r.dial_id # E}
                  = {r \in dial_values : r.dial_id # E}
             /\ dial_memberships' = dial_memberships]_vars

(* a recomputation changed the value of its dial and recorded it in a *)
(* minute in which another dial, with members and a history of its    *)
(* own, has no snapshot                                               *)
C30_Witness ==
    /\ lastOp.op = "refreshDialValue"
    /\ lastOp.err = "nil"
    /\ lastOp.found
    /\ lastOp.oldValue # lastOp.newValue
    /\ \E d \in dials, o \in dials :
          /\ d.id = lastOp.id /\ d.value = lastOp.newValue
          /\ o.id # d.id
          /\ SnapshotsOf(o.id) # {}
          /\ \E m \in dial_memberships : m.dial_id = o.id
          /\ \E r \in SnapshotsOf(d.id) :
                r.timestamp = Truncate(clock, Minute) /\ r.value = d.value
          /\ \A r \in SnapshotsOf(o.id) : r.timestamp # Truncate(clock, Minute)

====
